---------------------------- MODULE Spec2Model ----------------------------
(***************************************************************************)
(* A model of deskaid/tools/edit_file.py: the match-validate-patch-commit  *)
(* pipeline of edit_file_content and the helpers it calls.                 *)
(*                                                                         *)
(* Text is modelled as a sequence of one-character strings.  The file      *)
(* system holds the raw characters of each file; reading in text mode      *)
(* decodes them with Python's universal-newlines translation, writing      *)
(* (POSIX) stores the characters as given.                                 *)
(***************************************************************************)
EXTENDS Integers, Sequences, FiniteSets, TLC

LF == "\n"
CR == "\r"
SP == " "

(***************************************************************************)
(* Python string primitives used by the source.                            *)
(***************************************************************************)

\* s[i..] starts with sub (1-based i)
MatchAt(s, sub, i) ==
    /\ i >= 1
    /\ i + Len(sub) - 1 <= Len(s)
    /\ \A k \in 1..Len(sub) : s[i + k - 1] = sub[k]

\* Python: sub in s
Contains(s, sub) == \E i \in 1..(Len(s) - Len(sub) + 1) : MatchAt(s, sub, i)

\* Python: s.find(sub, from) as a 1-based index, 0 when absent
RECURSIVE FindFrom(_, _, _)
FindFrom(s, sub, i) ==
    IF i + Len(sub) - 1 > Len(s) THEN 0
    ELSE IF MatchAt(s, sub, i) THEN i
    ELSE FindFrom(s, sub, i + 1)

Find(s, sub) == FindFrom(s, sub, 1)

\* Python: s.count(sub): non-overlapping occurrences, scanned left to right
RECURSIVE CountFrom(_, _, _)
CountFrom(s, sub, i) ==
    LET at == FindFrom(s, sub, i)
    IN  IF at = 0 THEN 0 ELSE 1 + CountFrom(s, sub, at + Len(sub))

Count(s, sub) == IF sub = <<>> THEN Len(s) + 1 ELSE CountFrom(s, sub, 1)

\* Python: s.replace(old, new, 1)
ReplaceFirst(s, old, new) ==
    LET at == Find(s, old)
    IN  IF at = 0 THEN s
        ELSE SubSeq(s, 1, at - 1) \o new \o SubSeq(s, at + Len(old), Len(s))

\* Python: s.replace(old, new) for a non-empty old
RECURSIVE ReplaceAll(_, _, _)
ReplaceAll(s, old, new) ==
    LET at == Find(s, old)
    IN  IF at = 0 THEN s
        ELSE SubSeq(s, 1, at - 1) \o new
             \o ReplaceAll(SubSeq(s, at + Len(old), Len(s)), old, new)

\* Python: s.split("\n"): the lines of s, one more than its line breaks
RECURSIVE SplitLines(_)
SplitLines(s) ==
    LET at == Find(s, <<LF>>)
    IN  IF at = 0 THEN <<s>>
        ELSE <<SubSeq(s, 1, at - 1)>> \o SplitLines(SubSeq(s, at + 1, Len(s)))

\* Python: "\n".join(lines)
RECURSIVE JoinLines(_)
JoinLines(lines) ==
    IF Len(lines) = 0 THEN <<>>
    ELSE IF Len(lines) = 1 THEN lines[1]
    ELSE lines[1] \o <<LF>> \o JoinLines(Tail(lines))

Whitespace == {SP, LF, CR}

\* Python: line.rstrip()
RECURSIVE RStrip(_)
RStrip(line) ==
    IF Len(line) > 0 /\ line[Len(line)] \in Whitespace
    THEN RStrip(SubSeq(line, 1, Len(line) - 1))
    ELSE line

\* Python: s.split(sep)[0] for a non-empty sep: the text before the first sep
BeforeFirst(s, sep) ==
    LET at == Find(s, sep)
    IN  IF at = 0 THEN s ELSE SubSeq(s, 1, at - 1)

\* "\n".join([line.rstrip() for line in s.split("\n")])
StripTrailing(s) ==
    LET lines == SplitLines(s)
    IN  JoinLines([i \in 1..Len(lines) |-> RStrip(lines[i])])

\* open(path, "r").read(): universal newlines, CR LF and a lone CR read as LF
RECURSIVE ReadText(_)
ReadText(raw) ==
    IF raw = <<>> THEN <<>>
    ELSE IF raw[1] = CR
         THEN <<LF>> \o ReadText(SubSeq(raw, IF Len(raw) >= 2 /\ raw[2] = LF THEN 3 ELSE 2, Len(raw)))
         ELSE <<raw[1]>> \o ReadText(Tail(raw))


(***************************************************************************)
(* The world edit_file_content acts on.                                    *)
(***************************************************************************)

P1 == "/d1/f.txt"
P2 == "/d2/n.ipynb"
Paths == {P1, P2}

\* os.path.dirname(full_file_path)
Dir(p) == IF p = P1 THEN "/d1" ELSE "/d2"

\* full_file_path.endswith(".ipynb")
IsNotebook(p) == p = P2

\* the path lies inside the project repository, here the directory /d1
InRepository(p) == Dir(p) = "/d1"

NoFile == [exists |-> FALSE, data |-> <<>>, mtime |-> 0]
File(data, t) == [exists |-> TRUE, data |-> data, mtime |-> t]

\* read_file_timestamps.get(full_file_path, 0)
Get(tbl, p, default) == IF p \in DOMAIN tbl THEN tbl[p] ELSE default

\* read_file_timestamps[full_file_path] = t
Put(tbl, p, t) == [q \in DOMAIN tbl \cup {p} |-> IF q = p THEN t ELSE tbl[q]]

(***************************************************************************)
(* Content Codec.                                                          *)
(***************************************************************************)

\* the raw characters hold the two-character sequence CR LF
detect_line_endings(raw) == IF Contains(raw, <<CR, LF>>) THEN "CRLF" ELSE "LF"

\* mutant: the test of the line-ending style inverted
write_text_content_inverted(content, line_endings) ==
    IF line_endings # "CRLF"
    THEN ReplaceAll(content, <<LF>>, <<CR, LF>>)
    ELSE ReplaceAll(content, <<CR, LF>>, <<LF>>)

\* the characters write_text_content stores for content
write_text_content(content, line_endings) ==
    IF line_endings = "CRLF"
    THEN ReplaceAll(content, <<LF>>, <<CR, LF>>)
    ELSE ReplaceAll(content, <<CR, LF>>, <<LF>>)

(***************************************************************************)
(* Matcher: the exact pass and the whitespace-tolerant fallback.           *)
(***************************************************************************)

\* the window of content_lines starting at line i equals old_string_lines
\* once every line is right-trimmed
WindowMatches(content_lines, old_string_lines, i) ==
    \A j \in 1..Len(old_string_lines) :
        RStrip(content_lines[i + j - 1]) = RStrip(old_string_lines[j])

\* the windows the loop over i would accept
MatchingWindows(content, old_string) ==
    LET content_lines == SplitLines(content)
        old_string_lines == SplitLines(old_string)
    IN  {i \in 1..(Len(content_lines) - Len(old_string_lines) + 1) :
            WindowMatches(content_lines, old_string_lines, i)}

\* the untrimmed text of the window of content starting at line i
WindowText(content, old_string, i) ==
    JoinLines(SubSeq(SplitLines(content), i, i + Len(SplitLines(old_string)) - 1))

\* mutant: the fallback finds the window but keeps the caller's old_string
match_old_string_not_updated(content, old_string) ==
    IF old_string # <<>> /\ ~Contains(content, old_string)
    THEN [found |-> Contains(StripTrailing(content), StripTrailing(old_string)),
          old_string |-> old_string]
    ELSE [found |-> TRUE, old_string |-> old_string]

\* the old_string the rest of the call uses, or found = FALSE for the
\* "String to replace not found" return
match_old_string(content, old_string) ==
    IF old_string # <<>> /\ ~Contains(content, old_string)
    THEN IF Contains(StripTrailing(content), StripTrailing(old_string))
         THEN LET windows == MatchingWindows(content, old_string)
              IN  IF windows = {}
                  THEN [found |-> TRUE, old_string |-> old_string]
                  ELSE LET i == CHOOSE k \in windows : \A m \in windows : k <= m
                       IN  [found |-> TRUE,
                            old_string |-> WindowText(content, old_string, i)]
         ELSE [found |-> FALSE, old_string |-> old_string]
    ELSE [found |-> TRUE, old_string |-> old_string]

(***************************************************************************)
(* Patch Builder.                                                          *)
(***************************************************************************)

Prefixed(sign, lines) == [i \in 1..Len(lines) |-> <<sign>> \o lines[i]]

\* mutant: the hunk starts at the 0-based line number
apply_edit_zero_based(files, file_path, old_string, new_string) ==
    LET content == IF files[file_path].exists
                   THEN ReadText(files[file_path].data)
                   ELSE <<>>
        updated_file == IF old_string = <<>>
                        THEN new_string \o content
                        ELSE ReplaceFirst(content, old_string, new_string)
        old_lines == SplitLines(old_string)
        new_lines == SplitLines(new_string)
        line_num == Count(BeforeFirst(content, old_string), <<LF>>)
    IN  [raises |-> old_string # new_string /\ old_string = <<>>,
         updated_file |-> updated_file,
         patch |-> IF old_string # new_string /\ old_string # <<>>
                   THEN << [oldStart |-> line_num,
                            oldLines |-> Len(old_lines),
                            newStart |-> line_num,
                            newLines |-> Len(new_lines),
                            lines |-> Prefixed("-", old_lines)
                                      \o Prefixed("+", new_lines)] >>
                   ELSE <<>>]

\* apply_edit reads the file again; raises = TRUE models the ValueError of
\* content.split("") for an empty old_string
apply_edit(files, file_path, old_string, new_string) ==
    LET content == IF files[file_path].exists
                   THEN ReadText(files[file_path].data)
                   ELSE <<>>
        updated_file == IF old_string = <<>>
                        THEN new_string \o content
                        ELSE ReplaceFirst(content, old_string, new_string)
        old_lines == SplitLines(old_string)
        new_lines == SplitLines(new_string)
        line_num == Count(BeforeFirst(content, old_string), <<LF>>)
    IN  [raises |-> old_string # new_string /\ old_string = <<>>,
         updated_file |-> updated_file,
         patch |-> IF old_string # new_string /\ old_string # <<>>
                   THEN << [oldStart |-> line_num + 1,
                            oldLines |-> Len(old_lines),
                            newStart |-> line_num + 1,
                            newLines |-> Len(new_lines),
                            lines |-> Prefixed("-", old_lines)
                                      \o Prefixed("+", new_lines)] >>
                   ELSE <<>>]

(***************************************************************************)
(* Mutation Engine.  A world w is [fs, dirs, tbl, commits]; now is the     *)
(* wall-clock instant a write stamps on the file; rft is "none" when the   *)
(* caller passes read_file_timestamps=None and "table" when it passes the  *)
(* shared table; fault names the one operation of the call that raises     *)
(* ("none": nothing raises).  The value returned is the world the call     *)
(* leaves and the result it returns.                                       *)
(***************************************************************************)

Faults == {"none", "makedirs", "write_open", "write_truncated", "stat_check",
           "read", "stat_refresh", "snippet", "commit_raise", "commit_fail"}

Return(w, kind, matches, fault, old_string, patch) ==
    [w |-> w, kind |-> kind, matches |-> matches, fault |-> fault,
     old_string |-> old_string, patch |-> patch]

\* mutant: the file is opened for appending, the old content is kept
WriteFile_appending(w, now, file_path, data) ==
    [w EXCEPT !.fs = [w.fs EXCEPT ![file_path] =
                         File(w.fs[file_path].data \o data, now)]]

\* open(file_path, "w") truncates the file, f.write stores the content
WriteFile(w, now, file_path, data) ==
    [w EXCEPT !.fs = [w.fs EXCEPT ![file_path] = File(data, now)]]

\* mutant: the parent directory is not created
MakeDirs_skipped(w, directory) == w

\* os.makedirs(directory, exist_ok=True)
MakeDirs(w, directory) == [w EXCEPT !.dirs = w.dirs \cup {directory}]

\* commit_changes(full_file_path, description) returning (True, _)
CommitChanges(w, file_path, description) ==
    [w EXCEPT !.commits =
        Append(w.commits, [path |-> file_path, description |-> description])]

\* the creation branch: old_string is empty and the path does not exist
create_new_file(w, now, full_file_path, old_string, new_string, fault) ==
    LET w1 == MakeDirs(w, Dir(full_file_path))
    IN  IF fault = "makedirs"
        THEN Return(w, "UnexpectedFailure", 0, fault, old_string, <<>>)
        ELSE IF fault = "write_open"
        THEN Return(w1, "UnexpectedFailure", 0, fault, old_string, <<>>)
        ELSE IF fault = "write_truncated"
        THEN Return(WriteFile(w1, now, full_file_path, <<>>),
                    "UnexpectedFailure", 0, fault, old_string, <<>>)
        ELSE Return(WriteFile(w1, now, full_file_path,
                              write_text_content(new_string, "LF")),
                    "Created", 0, "none", old_string, <<>>)

\* from apply_edit to the return: old_string is the matcher's resolved text
write_and_commit(w, now, full_file_path, old_string, new_string, rft, description, fault, line_endings) ==
    LET edit == apply_edit(w.fs, full_file_path, old_string, new_string)
        w1 == MakeDirs(w, Dir(full_file_path))
        w2 == WriteFile(w1, now, full_file_path,
                        write_text_content(edit.updated_file, line_endings))
        w3 == IF rft # "none"
              THEN [w2 EXCEPT !.tbl = Put(w2.tbl, full_file_path,
                                          w2.fs[full_file_path].mtime)]
              ELSE w2
        Raise(wx) == Return(wx, "UnexpectedFailure", 0, fault, old_string,
                            edit.patch)
    IN  IF edit.raises THEN Return(w, "UnexpectedFailure", 0, "none", old_string, <<>>)
        ELSE IF fault = "makedirs" THEN Raise(w)
        ELSE IF fault = "write_open" THEN Raise(w1)
        ELSE IF fault = "write_truncated"
        THEN Raise(WriteFile(w1, now, full_file_path, <<>>))
        ELSE IF rft # "none" /\ fault = "stat_refresh" THEN Raise(w2)
        ELSE IF fault \in {"snippet", "commit_raise"} THEN Raise(w3)
        ELSE IF fault = "commit_fail"
        THEN Return(w3, "Edited", 0, fault, old_string, edit.patch)
        ELSE Return(CommitChanges(w3, full_file_path, description),
                    "Edited", 0, "none", old_string, edit.patch)

\* mutant: the comparison is not strict
IsStale_not_strict(last_write_time, recorded) == last_write_time >= recorded

\* last_write_time > read_file_timestamps.get(full_file_path, 0)
IsStale(last_write_time, recorded) == last_write_time > recorded

\* the call once old_string and new_string are known to differ
edit_distinct(w, now, file_path, old_string, new_string, rft, description, fault) ==
    LET full_file_path == file_path
        file == w.fs[full_file_path]
        tracked == rft # "none" /\ DOMAIN w.tbl # {}
        Stop(kind) == Return(w, kind, 0, "none", old_string, <<>>)
    IN  IF old_string = <<>> /\ file.exists THEN Stop("AlreadyExists")
        ELSE IF old_string = <<>> /\ ~file.exists
        THEN create_new_file(w, now, full_file_path, old_string, new_string, fault)
        ELSE IF ~file.exists THEN Stop("NotFound")
        ELSE IF IsNotebook(full_file_path) THEN Stop("ExcludedCategory")
        ELSE IF tracked /\ full_file_path \notin DOMAIN w.tbl
        THEN Stop("NeverRead")
        ELSE IF tracked /\ fault = "stat_check"
        THEN Return(w, "UnexpectedFailure", 0, fault, old_string, <<>>)
        ELSE IF tracked /\ IsStale(file.mtime, Get(w.tbl, full_file_path, 0))
        THEN Stop("Stale")
        ELSE IF fault = "read"
        THEN Return(w, "UnexpectedFailure", 0, fault, old_string, <<>>)
        ELSE LET line_endings == detect_line_endings(file.data)
                 content == ReadText(file.data)
                 m == match_old_string(content, old_string)
             IN  IF ~m.found THEN Stop("NotFoundInContent")
                 ELSE IF m.old_string # <<>> /\ Count(content, m.old_string) > 1
                 THEN Return(w, "AmbiguousMatch", Count(content, m.old_string),
                             "none", m.old_string, <<>>)
                 ELSE write_and_commit(w, now, full_file_path, m.old_string,
                                       new_string, rft, description, fault,
                                       line_endings)

\* mutant: no short circuit for old_string equal to new_string
edit_file_content_without_noop(w, now, file_path, old_string, new_string, rft, description, fault) ==
    edit_distinct(w, now, file_path, old_string, new_string, rft,
                  description, fault)

edit_file_content(w, now, file_path, old_string, new_string, rft, description, fault) ==
    IF old_string = new_string
    THEN Return(w, "NoOp", 0, "none", old_string, <<>>)
    ELSE edit_distinct(w, now, file_path, old_string, new_string, rft,
                       description, fault)

\* the words the returned string begins with, for each way the call returns
result_message(kind) ==
    CASE kind = "NoOp" -> <<"No", "changes", "to", "make:">>
      [] kind = "AlreadyExists" -> <<"Cannot", "create", "new", "file", "-", "file", "already", "exists.">>
      [] kind = "Created" -> <<"Successfully", "created">>
      [] kind = "NotFound" -> <<"Error:", "File", "does", "not", "exist:">>
      [] kind = "ExcludedCategory" -> <<"Error:", "File", "is", "a", "Jupyter", "Notebook.">>
      [] kind = "NeverRead" -> <<"Error:", "File", "has", "not", "been", "read", "yet.">>
      [] kind = "Stale" -> <<"Error:", "File", "has", "been", "modified", "since", "read,">>
      [] kind = "NotFoundInContent" -> <<"Error:", "String", "to", "replace", "not", "found", "in", "file.">>
      [] kind = "AmbiguousMatch" -> <<"Error:", "Found">>
      [] kind = "Edited" -> <<"Successfully", "edited">>
      [] kind = "UnexpectedFailure" -> <<"Error", "editing", "file:">>
      [] OTHER -> <<>>

(***************************************************************************)
(* State.                                                                  *)
(*   fs                    the file at each path: exists, raw data, mtime  *)
(*   dirs                  the directories that exist                      *)
(*   read_file_timestamps  the shared read-timestamp table                 *)
(*   commits               the commits made by commit_changes, in order    *)
(*   clock                 the wall clock                                  *)
(*   last                  the last edit_file_content call: its arguments, *)
(*                         the world before it, and what it returned       *)
(*   ncalls, nenv          calls made, environment steps taken             *)
(*   calls                 the edit_file_content calls in progress, each   *)
(*                         with its position in the code and its locals    *)
(*   writers               the calls that have written the file, in order  *)
(*                                                                         *)
(* A behaviour follows one call: the environment's steps produce the world *)
(* the call starts in, and the behaviour ends when the call returns.       *)
(***************************************************************************)
VARIABLES fs, dirs, read_file_timestamps, commits, clock, last, ncalls, nenv, calls, writers

vars == <<fs, dirs, read_file_timestamps, commits, clock, last, ncalls, nenv,
          calls, writers>>

\* bounds of the model
MaxEnv == 2
MaxClock == 2
MaxLines == 3
MaxOldLines == 2

World == [fs |-> fs, dirs |-> dirs, tbl |-> read_file_timestamps,
          commits |-> commits]

NoCall == [path |-> P1, old_string |-> <<>>, new_string |-> <<>>,
           rft |-> "none", description |-> "", fault |-> "none",
           kind |-> "NoCall", matches |-> 0, resolved |-> <<>>,
           patch |-> <<>>,
           pre |-> [fs |-> [p \in Paths |-> NoFile], dirs |-> {},
                    tbl |-> <<>>, commits |-> <<>>]]

\* no call in progress
NoCalls == <<>>

RftArgs == {"none", "table"}
Descriptions == {"edit"}

\* one call of edit_file_content, start to return
Call(file_path, old_string, new_string, rft, description, fault) ==
    \E r \in {edit_file_content(World, clock, file_path, old_string,
                                new_string, rft, description, fault)} :
        /\ fs' = r.w.fs
        /\ dirs' = r.w.dirs
        /\ read_file_timestamps' = r.w.tbl
        /\ commits' = r.w.commits
        /\ last' = [path |-> file_path, old_string |-> old_string,
                    new_string |-> new_string, rft |-> rft,
                    description |-> description, fault |-> r.fault,
                    kind |-> r.kind, matches |-> r.matches,
                    resolved |-> r.old_string, patch |-> r.patch,
                    pre |-> World]
        /\ ncalls' = ncalls + 1
        /\ UNCHANGED <<clock, nenv, calls, writers>>

(***************************************************************************)
(* Spec: calls with small arguments, every fault, and the environment:     *)
(* another process rewriting a file, the caller's read tool recording a    *)
(* read, the clock advancing.                                              *)
(***************************************************************************)

Texts == {<<>>, <<"a">>, <<"a", LF, "a">>}
NewTexts == {<<>>, <<"a">>, <<"c", CR, LF>>}

Init ==
    /\ fs \in [Paths -> {NoFile, File(<<"a">>, 0)}]
    /\ dirs = {Dir(p) : p \in {q \in Paths : fs[q].exists}}
    /\ read_file_timestamps = <<>>
    /\ commits = <<>>
    /\ clock = 0
    /\ last = NoCall
    /\ ncalls = 0
    /\ nenv = 0
    /\ calls = NoCalls
    /\ writers = <<>>

EditFile ==
    /\ ncalls = 0
    /\ \E file_path \in Paths, old_string \in Texts, new_string \in NewTexts,
          rft \in RftArgs, description \in Descriptions, fault \in Faults :
          Call(file_path, old_string, new_string, rft, description, fault)

\* another process (the user, a linter) rewrites an existing file
ExternalModify ==
    /\ ncalls = 0
    /\ nenv < MaxEnv
    /\ \E p \in Paths, d \in Texts :
          /\ fs[p].exists
          /\ fs[p].data # d
          /\ fs' = [fs EXCEPT ![p] = File(d, clock)]
    /\ nenv' = nenv + 1
    /\ UNCHANGED <<dirs, read_file_timestamps, commits, clock, last, ncalls,
                   calls, writers>>

\* recordRead(path, instant): the read tool records the instant of a read
RecordRead ==
    /\ ncalls = 0
    /\ nenv < MaxEnv
    /\ \E p \in Paths :
          /\ fs[p].exists
          /\ read_file_timestamps' = Put(read_file_timestamps, p, clock)
    /\ nenv' = nenv + 1
    /\ UNCHANGED <<fs, dirs, commits, clock, last, ncalls, calls, writers>>

Tick ==
    /\ ncalls = 0
    /\ clock < MaxClock
    /\ clock' = clock + 1
    /\ UNCHANGED <<fs, dirs, read_file_timestamps, commits, last, ncalls, nenv,
                   calls, writers>>

Next == EditFile \/ ExternalModify \/ RecordRead \/ Tick

Spec == Init /\ [][Next]_vars

(***************************************************************************)
(* SpecMatch: one call on a fresh, existing file, with the shared table    *)
(* passed; the file's raw content and old_string range over every text of  *)
(* a few lines.                                                            *)
(***************************************************************************)

LineValues == {<<>>, <<"a">>, <<"a", SP>>, <<SP, "a">>, <<"a", CR>>}

\* the texts of 1..n lines, each line a LineValue
LinesTexts(n) ==
    UNION {{JoinLines(ls) : ls \in [1..k -> LineValues]} : k \in 1..n}

MatchNews == {<<>>, <<"c", LF, "c">>, <<"c", CR, LF>>}

InitMatch ==
    /\ fs \in {[p \in Paths |-> IF p = P1 THEN File(d, 0) ELSE NoFile] :
                 d \in LinesTexts(MaxLines)}
    /\ dirs = {Dir(P1)}
    /\ read_file_timestamps = [p \in {P1} |-> 0]
    /\ commits = <<>>
    /\ clock = 0
    /\ last = NoCall
    /\ ncalls = 0
    /\ nenv = 0
    /\ calls = NoCalls
    /\ writers = <<>>

EditMatch ==
    /\ ncalls = 0
    /\ \E old_string \in LinesTexts(MaxOldLines), new_string \in MatchNews :
          Call(P1, old_string, new_string, "table", "edit", "none")

NextMatch == EditMatch

SpecMatch == InitMatch /\ [][NextMatch]_vars

(***************************************************************************)
(* SpecConc: two calls of edit_file_content on the same path, run by the   *)
(* host at the same time with the shared table, one recorded read of the   *)
(* path and no read in between.  A call advances from one access of the    *)
(* file system or of the table to the next; the steps of the two calls     *)
(* and the clock interleave freely.                                        *)
(***************************************************************************)

Procs == {1, 2}

ConcContents == {<<"a", LF, "b">>, <<"a", LF, "a">>}
ConcOlds == {<<"a">>, <<"b">>, <<"a", LF>>}
ConcNew(c) == IF c = 1 THEN <<"c">> ELSE <<"d">>

\* a call about to start, with its arguments
NewCall(old_string, new_string) ==
    [pc |-> "check", file_path |-> P1, old_string |-> old_string,
     new_string |-> new_string, rft |-> "table", description |-> "edit",
     line_endings |-> "LF", content |-> <<>>, resolved |-> <<>>,
     reread |-> <<>>, updated_file |-> <<>>, patch |-> <<>>,
     kind |-> "", matches |-> 0]

InitConc ==
    /\ fs \in {[p \in Paths |-> IF p = P1 THEN File(d, 0) ELSE NoFile] :
                 d \in ConcContents}
    /\ dirs = {Dir(P1)}
    /\ read_file_timestamps = [p \in {P1} |-> 0]
    /\ commits = <<>>
    /\ clock = 0
    /\ last = NoCall
    /\ ncalls = 0
    /\ nenv = 0
    /\ calls \in {[c \in Procs |-> NewCall(olds[c], ConcNew(c))] :
                    olds \in [Procs -> ConcOlds]}
    /\ writers = <<>>

\* the call returns the result of the given kind
Finish(c, kind, matches) ==
    calls' = [calls EXCEPT ![c].pc = "done", ![c].kind = kind,
                           ![c].matches = matches]

\* the call goes on to the next position
Goto(c, pc) == calls' = [calls EXCEPT ![c].pc = pc]

\* lines 227-275: the no-change return, the creation branch, and the
\* existence, notebook and freshness checks (one stat of the file)
CheckStep(c) ==
    LET a == calls[c]
        file == fs[a.file_path]
        tracked == a.rft # "none" /\ DOMAIN read_file_timestamps # {}
        created == create_new_file(World, clock, a.file_path, a.old_string,
                                   a.new_string, "none").w
    IN  /\ a.pc = "check"
        /\ IF a.old_string # a.new_string /\ a.old_string = <<>> /\ ~file.exists
           THEN /\ fs' = created.fs
                /\ dirs' = created.dirs
                /\ writers' = Append(writers, c)
                /\ Finish(c, "Created", 0)
           ELSE /\ UNCHANGED <<fs, dirs, writers>>
                /\ IF a.old_string = a.new_string THEN Finish(c, "NoOp", 0)
                   ELSE IF a.old_string = <<>> THEN Finish(c, "AlreadyExists", 0)
                   ELSE IF ~file.exists THEN Finish(c, "NotFound", 0)
                   ELSE IF IsNotebook(a.file_path)
                   THEN Finish(c, "ExcludedCategory", 0)
                   ELSE IF tracked /\ a.file_path \notin DOMAIN read_file_timestamps
                   THEN Finish(c, "NeverRead", 0)
                   ELSE IF tracked /\ IsStale(file.mtime,
                                              Get(read_file_timestamps, a.file_path, 0))
                   THEN Finish(c, "Stale", 0)
                   ELSE Goto(c, "detect")
        /\ UNCHANGED <<read_file_timestamps, commits, clock, last, ncalls, nenv>>

\* lines 278-279: the line-ending style of the raw file
DetectStep(c) ==
    /\ calls[c].pc = "detect"
    /\ calls' = [calls EXCEPT ![c].pc = "read",
                    ![c].line_endings = detect_line_endings(fs[calls[c].file_path].data)]
    /\ UNCHANGED <<fs, dirs, read_file_timestamps, commits, clock, last, ncalls,
                   nenv, writers>>

\* lines 281-315: the read of the content, the matcher, the count
ReadStep(c) ==
    LET a == calls[c]
        content == ReadText(fs[a.file_path].data)
        m == match_old_string(content, a.old_string)
    IN  /\ a.pc = "read"
        /\ IF ~m.found THEN Finish(c, "NotFoundInContent", 0)
           ELSE IF m.old_string # <<>> /\ Count(content, m.old_string) > 1
           THEN Finish(c, "AmbiguousMatch", Count(content, m.old_string))
           ELSE calls' = [calls EXCEPT ![c].pc = "apply",
                                       ![c].content = content,
                                       ![c].resolved = m.old_string]
        /\ UNCHANGED <<fs, dirs, read_file_timestamps, commits, clock, last,
                       ncalls, nenv, writers>>

\* line 318: apply_edit reads the file again and computes the new content
ApplyStep(c) ==
    LET a == calls[c]
        edit == apply_edit(fs, a.file_path, a.resolved, a.new_string)
    IN  /\ a.pc = "apply"
        /\ IF edit.raises THEN Finish(c, "UnexpectedFailure", 0)
           ELSE calls' = [calls EXCEPT ![c].pc = "write",
                                       ![c].reread = ReadText(fs[a.file_path].data),
                                       ![c].updated_file = edit.updated_file,
                                       ![c].patch = edit.patch]
        /\ UNCHANGED <<fs, dirs, read_file_timestamps, commits, clock, last,
                       ncalls, nenv, writers>>

\* lines 321-325: makedirs and the write of the new content
WriteStep(c) ==
    LET a == calls[c]
        w == WriteFile(MakeDirs(World, Dir(a.file_path)), clock, a.file_path,
                       write_text_content(a.updated_file, a.line_endings))
    IN  /\ a.pc = "write"
        /\ fs' = w.fs
        /\ dirs' = w.dirs
        /\ writers' = Append(writers, c)
        /\ Goto(c, "refresh")
        /\ UNCHANGED <<read_file_timestamps, commits, clock, last, ncalls, nenv>>

\* lines 328-329: the table entry becomes the file's modification instant
RefreshStep(c) ==
    LET a == calls[c]
    IN  /\ a.pc = "refresh"
        /\ read_file_timestamps' =
              IF a.rft # "none"
              THEN Put(read_file_timestamps, a.file_path, fs[a.file_path].mtime)
              ELSE read_file_timestamps
        /\ Goto(c, "commit")
        /\ UNCHANGED <<fs, dirs, commits, clock, last, ncalls, nenv, writers>>

\* lines 332-342: the snippet, the commit and the return
CommitStep(c) ==
    LET a == calls[c]
    IN  /\ a.pc = "commit"
        /\ commits' = CommitChanges(World, a.file_path, a.description).commits
        /\ Finish(c, "Edited", 0)
        /\ UNCHANGED <<fs, dirs, read_file_timestamps, clock, last, ncalls, nenv,
                       writers>>

NextConc ==
    \/ \E c \in Procs : CheckStep(c)
    \/ \E c \in Procs : DetectStep(c)
    \/ \E c \in Procs : ReadStep(c)
    \/ \E c \in Procs : ApplyStep(c)
    \/ \E c \in Procs : WriteStep(c)
    \/ \E c \in Procs : RefreshStep(c)
    \/ \E c \in Procs : CommitStep(c)
    \/ Tick

SpecConc == InitConc /\ [][NextConc]_vars

(***************************************************************************)
(* SpecExt: one call of edit_file_content with the shared table and one    *)
(* recorded read of the path, while another process (the user, a linter)   *)
(* rewrites the file.  The call advances as in SpecConc; every rewrite by  *)
(* the other process happens at a later instant than all writes before it  *)
(* and no read is recorded meanwhile.                                      *)
(***************************************************************************)

\* the one caller, and the other process as an entry of writers
Callers == {1}
Ext == 0

InitExt ==
    /\ fs \in {[p \in Paths |-> IF p = P1 THEN File(d, 0) ELSE NoFile] :
                 d \in ConcContents}
    /\ dirs = {Dir(P1)}
    /\ read_file_timestamps = [p \in {P1} |-> 0]
    /\ commits = <<>>
    /\ clock = 0
    /\ last = NoCall
    /\ ncalls = 0
    /\ nenv = 0
    /\ calls \in {[c \in Callers |-> NewCall(old_string, ConcNew(c))] :
                    old_string \in ConcOlds}
    /\ writers = <<>>

\* the other process rewrites the file, at the next instant
ExternalWrite ==
    /\ clock < MaxClock
    /\ \E d \in ConcContents :
          /\ fs[P1].data # d
          /\ fs' = [fs EXCEPT ![P1] = File(d, clock + 1)]
    /\ clock' = clock + 1
    /\ writers' = Append(writers, Ext)
    /\ UNCHANGED <<dirs, read_file_timestamps, commits, last, ncalls, nenv, calls>>

NextExt ==
    \/ \E c \in Callers : CheckStep(c)
    \/ \E c \in Callers : DetectStep(c)
    \/ \E c \in Callers : ReadStep(c)
    \/ \E c \in Callers : ApplyStep(c)
    \/ \E c \in Callers : WriteStep(c)
    \/ \E c \in Callers : RefreshStep(c)
    \/ \E c \in Callers : CommitStep(c)
    \/ ExternalWrite

SpecExt == InitExt /\ [][NextExt]_vars

(***************************************************************************)
(* Vocabulary of the properties.                                           *)
(***************************************************************************)

Called == last.kind # "NoCall"

PreFile == last.pre.fs[last.path]
PostFile == fs[last.path]

\* the file's content as the call read it, and as a read after it gives it
PreText == ReadText(PreFile.data)
PostText == ReadText(PostFile.data)

\* every start offset of sub in s, overlapping occurrences included
Offsets(s, sub) == {i \in 1..(Len(s) - Len(sub) + 1) : MatchAt(s, sub, i)}

\* s with the len characters at offset i replaced by new
ReplacedAt(s, i, len, new) ==
    SubSeq(s, 1, i - 1) \o new \o SubSeq(s, i + len, Len(s))

NoCR(s) == \A i \in 1..Len(s) : s[i] # CR

StartsWith(s, prefix) == MatchAt(s, prefix, 1)
EndsWith(s, suffix) == MatchAt(s, suffix, Len(s) - Len(suffix) + 1)

\* the call got past the existence, notebook and freshness checks
ChecksPassed ==
    /\ PreFile.exists
    /\ ~IsNotebook(last.path)
    /\ \/ last.rft = "none"
       \/ /\ last.path \in DOMAIN last.pre.tbl
          /\ PreFile.mtime <= last.pre.tbl[last.path]

\* a call that replaces: non-empty old_string, a different new_string,
\* the checks passed, nothing raised
Replacing ==
    /\ Called
    /\ last.old_string # <<>>
    /\ last.old_string # last.new_string
    /\ ChecksPassed
    /\ last.fault = "none"

WorldUnchanged == World = last.pre

(***************************************************************************)
(* C1                                                                      *)
(***************************************************************************)

\* C1 as claimed: for every raw content C, a non-empty old_string occurring
\* exactly once in C and a different new_string, the call leaves the file
\* equal to C with that occurrence replaced, byte for byte.
C1_ByteExactForEveryContent ==
    (Replacing /\ Cardinality(Offsets(PreFile.data, last.old_string)) = 1)
    => LET at == CHOOSE i \in Offsets(PreFile.data, last.old_string) : TRUE
       IN  PostFile.data =
              ReplacedAt(PreFile.data, at, Len(last.old_string), last.new_string)

\* C1 amended: the same, for a file and a new_string that hold no carriage
\* return: the call succeeds and the file is C with the single occurrence
\* of old_string replaced by new_string, every other byte unchanged.
C1_ByteExactWithoutCR ==
    (/\ Replacing
     /\ Cardinality(Offsets(PreFile.data, last.old_string)) = 1
     /\ NoCR(PreFile.data)
     /\ NoCR(last.new_string))
    => LET at == CHOOSE i \in Offsets(PreFile.data, last.old_string) : TRUE
       IN  /\ last.kind = "Edited"
           /\ PostFile.data =
                 ReplacedAt(PreFile.data, at, Len(last.old_string), last.new_string)

\* a single occurrence in the middle of a file of several lines was replaced
C1_Witness ==
    /\ Replacing
    /\ NoCR(PreFile.data)
    /\ NoCR(last.new_string)
    /\ last.kind = "Edited"
    /\ \E at \in Offsets(PreFile.data, last.old_string) :
          /\ Offsets(PreFile.data, last.old_string) = {at}
          /\ at > 1
          /\ at + Len(last.old_string) <= Len(PreFile.data)
    /\ Contains(PreFile.data, <<LF>>)
    /\ PostFile.data # PreFile.data

(***************************************************************************)
(* C2                                                                      *)
(***************************************************************************)

\* C2: a non-empty old_string that occurs at two or more places of the
\* content makes the call fail with AmbiguousMatch reporting the number of
\* occurrences, without entering the fallback, and leaves the file, the
\* table and the commit history unchanged.
C2_AmbiguousExactMatchFails ==
    (Replacing /\ Cardinality(Offsets(PreText, last.old_string)) >= 2)
    => /\ last.kind = "AmbiguousMatch"
       /\ last.matches = Cardinality(Offsets(PreText, last.old_string))
       /\ last.resolved = last.old_string
       /\ WorldUnchanged

(***************************************************************************)
(* C3                                                                      *)
(***************************************************************************)

\* C3: when old_string is no exact substring of the content and no window
\* of whole lines equals it after right-trimming, the call returns
\* NotFoundInContent and writes and commits nothing.
C3_NoMatchIsNotFound ==
    (/\ Replacing
     /\ ~Contains(PreText, last.old_string)
     /\ MatchingWindows(PreText, last.old_string) = {})
    => /\ last.kind = "NotFoundInContent"
       /\ WorldUnchanged

(***************************************************************************)
(* C4                                                                      *)
(***************************************************************************)

\* the first window of the content that equals old_string after trimming
FirstWindow ==
    CHOOSE i \in MatchingWindows(PreText, last.old_string) :
        \A k \in MatchingWindows(PreText, last.old_string) : i <= k

\* the character offset at which line i of text starts
LineStart(text, i) ==
    1 + Len(JoinLines(SubSeq(SplitLines(text), 1, i - 1)))
      + (IF i > 1 THEN 1 ELSE 0)

FallbackCase ==
    /\ Replacing
    /\ ~Contains(PreText, last.old_string)
    /\ MatchingWindows(PreText, last.old_string) # {}

\* the file's text is the old text with the window at line i replaced
WindowReplaced(i) ==
    LET actual == WindowText(PreText, last.old_string, i)
        at == LineStart(PreText, i)
        before == SubSeq(PreText, 1, at - 1)
        after == SubSeq(PreText, at + Len(actual), Len(PreText))
    IN  /\ StartsWith(PostText, before)
        /\ EndsWith(PostText, after)
        /\ Len(PostText) >= Len(before) + Len(after)
        /\ NoCR(last.new_string) => PostText = before \o last.new_string \o after

C5_SeveralWindowsNeverEdited ==
    (/\ FallbackCase
     /\ Cardinality(MatchingWindows(PreText, last.old_string)) >= 2)
    => /\ last.kind # "Edited"
       /\ WorldUnchanged

(***************************************************************************)
(* C6                                                                      *)
(***************************************************************************)

\* the table passed to the call records a read of the path at an instant
\* before the file's modification instant
ReadThenModified ==
    /\ Called
    /\ last.rft = "table"
    /\ PreFile.exists
    /\ last.path \in DOMAIN last.pre.tbl
    /\ last.pre.tbl[last.path] < PreFile.mtime
    /\ last.fault = "none"

\* C6 as claimed: every call with a non-empty old_string on a file modified
\* after its recorded read fails with Stale and changes nothing.
C6_StaleForEveryNonEmptyOld ==
    (ReadThenModified /\ last.old_string # <<>>)
    => /\ last.kind = "Stale"
       /\ WorldUnchanged

\* C6 amended: a call on a path that is no notebook, with a non-empty
\* old_string and a new_string different from it, on a file modified after
\* its recorded read, fails with Stale and leaves the file, the table and
\* the commit history unchanged; and a file whose modification instant
\* equals the recorded instant is never reported Stale.
C6_StaleWhenModifiedAfterRead ==
    /\ (/\ ReadThenModified
        /\ last.old_string # <<>>
        /\ last.old_string # last.new_string
        /\ ~IsNotebook(last.path))
       => /\ last.kind = "Stale"
          /\ WorldUnchanged
    /\ (/\ Called
        /\ last.rft = "table"
        /\ last.path \in DOMAIN last.pre.tbl
        /\ last.pre.tbl[last.path] = PreFile.mtime)
       => last.kind # "Stale"

\* a read was recorded, the clock advanced, another process rewrote the
\* file, and the edit was refused
C6_Witness ==
    /\ ReadThenModified
    /\ last.kind = "Stale"
    /\ nenv >= 2
    /\ PreFile.mtime > 0
    /\ WorldUnchanged

(***************************************************************************)
(* C7                                                                      *)
(***************************************************************************)

\* C7: whenever a table is supplied, be it empty, and the existing target
\* has no entry in it, an edit with a non-empty old_string fails with
\* NeverRead and writes nothing.
C7_NeverReadWhenNoEntry ==
    (/\ Called
     /\ last.rft = "table"
     /\ PreFile.exists
     /\ ~IsNotebook(last.path)
     /\ last.path \notin DOMAIN last.pre.tbl
     /\ last.old_string # <<>>
     /\ last.old_string # last.new_string
     /\ last.fault = "none")
    => /\ last.kind = "NeverRead"
       /\ fs = last.pre.fs

(***************************************************************************)
(* C8                                                                      *)
(***************************************************************************)

\* s with every CR LF pair turned into LF
RECURSIVE LfNormalized(_)
LfNormalized(s) ==
    IF Len(s) = 0 THEN <<>>
    ELSE IF Len(s) >= 2 /\ s[1] = CR /\ s[2] = LF
         THEN <<LF>> \o LfNormalized(SubSeq(s, 3, Len(s)))
         ELSE <<s[1]>> \o LfNormalized(Tail(s))

Creating ==
    /\ Called
    /\ last.old_string = <<>>
    /\ last.new_string # <<>>
    /\ last.fault = "none"

\* C8: with an empty old_string and a non-empty new_string, a call on a
\* path that does not exist creates the file, and its parent directory,
\* holding new_string up to line-ending normalization; the same call on a
\* path that exists fails with AlreadyExists and leaves the file as it was.
C8_CreationNeverOverwrites ==
    Creating
    => IF PreFile.exists
       THEN /\ last.kind = "AlreadyExists"
            /\ PostFile = PreFile
       ELSE /\ last.kind = "Created"
            /\ PostFile.exists
            /\ PostFile.data = LfNormalized(last.new_string)
            /\ Dir(last.path) \in dirs

\* a file was created in a directory that did not exist, from a new_string
\* whose line ending was normalized
C8_Witness ==
    /\ Creating
    /\ ~PreFile.exists
    /\ Dir(last.path) \notin last.pre.dirs
    /\ last.kind = "Created"
    /\ PostFile.data # last.new_string
    /\ PostFile.data = LfNormalized(last.new_string)

(***************************************************************************)
(* C9                                                                      *)
(***************************************************************************)

\* C9: a call with old_string equal to new_string returns the no-change
\* result and changes neither files, directories, the table nor the
\* commit history, whatever the path and the table.
C9_NoOpChangesNothing ==
    (Called /\ last.old_string = last.new_string)
    => /\ last.kind = "NoOp"
       /\ WorldUnchanged

\* the no-change result on an existing file whose recorded read is stale
C9_Witness ==
    /\ Called
    /\ last.old_string = last.new_string
    /\ last.old_string # <<>>
    /\ last.kind = "NoOp"
    /\ last.rft = "table"
    /\ PreFile.exists
    /\ last.path \in DOMAIN last.pre.tbl
    /\ last.pre.tbl[last.path] < PreFile.mtime
    /\ WorldUnchanged

(***************************************************************************)
(* C10                                                                     *)
(***************************************************************************)

\* C10: a call that returns a failure (neither a success message nor the
\* no-change result) has not changed the file, also when something raises
\* after the write.
C10_FailureLeavesFileUnchanged ==
    (Called /\ last.kind \notin {"Created", "Edited", "NoOp"})
    => PostFile = PreFile

(***************************************************************************)
(* C11                                                                     *)
(***************************************************************************)

\* the call reached commit_changes (the file is written by then) and the
\* commit failed, by returning (False, message) or by raising
CommitFailed == Called /\ last.fault \in {"commit_fail", "commit_raise"}

\* the content the edit computes for the file
EditedData ==
    write_text_content(
        apply_edit(last.pre.fs, last.path, last.resolved, last.new_string).updated_file,
        detect_line_endings(PreFile.data))

\* C11: once the edited content is written, however the commit fails, the
\* file keeps the edited content and the result begins with "Successfully
\* edited".
C11_CommitFailureNeverFatal ==
    CommitFailed
    => /\ PostFile.data = EditedData
       /\ StartsWith(result_message(last.kind), <<"Successfully", "edited">>)

(***************************************************************************)
(* C12                                                                     *)
(***************************************************************************)

\* C12: a call that writes the file, on the creation path or on the edit
\* path, invokes the commit exactly once with the caller's description
\* before it returns, and a call that does not write the file does not
\* invoke it.
C12_EveryWriteIsCommitted ==
    /\ (Called /\ last.fault = "none" /\ last.kind \in {"Created", "Edited"})
       => commits = Append(last.pre.commits,
                           [path |-> last.path, description |-> last.description])
    /\ (Called /\ PostFile = PreFile /\ last.kind \notin {"Created", "Edited"})
       => commits = last.pre.commits

(***************************************************************************)
(* C13                                                                     *)
(***************************************************************************)

\* commit_changes has added the path to version control
Tracked(p) == \E i \in 1..Len(commits) : commits[i].path = p

\* C13: whenever a call reports "Successfully edited", the file holds the
\* new content (a read of the file finds new_string in it) and the file
\* has been added to version control.
C13_SuccessfulEditIsTracked ==
    (Called /\ StartsWith(result_message(last.kind), <<"Successfully", "edited">>))
    => /\ Contains(PostText, ReadText(last.new_string))
       /\ Tracked(last.path)

(***************************************************************************)
(* C14                                                                     *)
(***************************************************************************)

\* the result of a second call by the same caller, right after the first,
\* on the same path and with the same table
NextEditKinds ==
    {edit_file_content(World, clock, last.path, old, new, "table", "edit", "none").kind :
        old \in {<<"a">>}, new \in {<<>>, <<"c">>}}

\* C14: after a creation or an edit made with a table supplied, the table's
\* entry for the path is the file's new modification instant, and an edit
\* of the same path that follows at once is refused neither as NeverRead
\* nor as Stale.
C14_TableRefreshedAfterEveryWrite ==
    (/\ Called
     /\ last.rft = "table"
     /\ last.fault = "none"
     /\ last.kind \in {"Created", "Edited"})
    => /\ last.path \in DOMAIN read_file_timestamps
       /\ read_file_timestamps[last.path] = PostFile.mtime
       /\ NextEditKinds \cap {"NeverRead", "Stale"} = {}

(***************************************************************************)
(* C15                                                                     *)
(***************************************************************************)

FailureKinds ==
    {"AlreadyExists", "NotFound", "ExcludedCategory", "NeverRead", "Stale",
     "NotFoundInContent", "AmbiguousMatch", "UnexpectedFailure"}

\* C15: the result of a creation begins with "Successfully created", the
\* result of an edit with "Successfully edited", and the result of every
\* failure with "Error:" or "Error editing file:".
C15_PrefixTellsOutcome ==
    Called
    => /\ last.kind = "Created"
          => StartsWith(result_message(last.kind), <<"Successfully", "created">>)
       /\ last.kind = "Edited"
          => StartsWith(result_message(last.kind), <<"Successfully", "edited">>)
       /\ last.kind \in FailureKinds
          => \/ StartsWith(result_message(last.kind), <<"Error:">>)
             \/ StartsWith(result_message(last.kind), <<"Error", "editing", "file:">>)

(***************************************************************************)
(* C17                                                                     *)
(***************************************************************************)

\* the returned string contains the word Error
Rejected == \E i \in 1..Len(result_message(last.kind)) :
                result_message(last.kind)[i] \in {"Error", "Error:"}

\* C17: a request on a path outside the repository is rejected with a
\* result containing "Error", or creates no file outside the repository.
C17_NothingCreatedOutsideRepository ==
    (/\ Called
     /\ ~InRepository(last.path)
     /\ ~PreFile.exists
     /\ PostFile.exists)
    => Rejected

(***************************************************************************)
(* C18                                                                     *)
(***************************************************************************)

\* C18: a call that returns a failure or the no-change result leaves every
\* entry of the table as it was, and a successful call changes no entry
\* but the one of its own path.
C18_TableChangedOnlyBySuccessfulWrite ==
    Called
    => /\ last.kind \notin {"Created", "Edited"}
          => read_file_timestamps = last.pre.tbl
       /\ DOMAIN read_file_timestamps \subseteq DOMAIN last.pre.tbl \cup {last.path}
       /\ \A p \in DOMAIN last.pre.tbl \ {last.path} :
             /\ p \in DOMAIN read_file_timestamps
             /\ read_file_timestamps[p] = last.pre.tbl[p]

(***************************************************************************)
(* C19                                                                     *)
(***************************************************************************)

\* the lines of s: one more than its line breaks
NumLines(s) == 1 + Cardinality({i \in 1..Len(s) : s[i] = LF})

\* the edit went through on a resolved old text the content holds
LocatedMatch ==
    /\ Replacing
    /\ last.kind = "Edited"
    /\ Contains(PreText, last.resolved)
    /\ last.resolved # last.new_string

\* the offset of the first occurrence of the resolved old text
MatchOffset ==
    CHOOSE i \in Offsets(PreText, last.resolved) :
        \A k \in Offsets(PreText, last.resolved) : i <= k

\* C19: for a located match with resolved old text O different from the
\* new text N, the patch is one hunk whose oldStart and newStart are one
\* more than the number of line breaks before the match, whose oldLines and
\* newLines are the numbers of lines of O and of N, and whose body lists
\* the lines of O as deletions, then the lines of N as insertions.
C19_OneHunkAtTheMatch ==
    LocatedMatch
    => /\ Len(last.patch) = 1
       /\ last.patch[1].oldStart =
             1 + Cardinality({i \in 1..(MatchOffset - 1) : PreText[i] = LF})
       /\ last.patch[1].newStart = last.patch[1].oldStart
       /\ last.patch[1].oldLines = NumLines(last.resolved)
       /\ last.patch[1].newLines = NumLines(last.new_string)
       /\ Len(last.patch[1].lines) = NumLines(last.resolved) + NumLines(last.new_string)
       /\ \A i \in 1..NumLines(last.resolved) :
             last.patch[1].lines[i] = <<"-">> \o SplitLines(last.resolved)[i]
       /\ \A i \in 1..NumLines(last.new_string) :
             last.patch[1].lines[NumLines(last.resolved) + i]
                = <<"+">> \o SplitLines(last.new_string)[i]

\* a one-line match on the second line of a three-line file replaced by
\* two lines: the hunk is {oldStart 2, oldLines 1, newStart 2, newLines 2}
C19_Witness ==
    /\ LocatedMatch
    /\ PreText = <<LF, "a", LF>>
    /\ last.old_string = <<"a">>
    /\ last.new_string = <<"c", LF, "c">>
    /\ PostText = <<LF, "c", LF, "c", LF>>
    /\ last.patch[1].oldStart = 2
    /\ last.patch[1].oldLines = 1
    /\ last.patch[1].newStart = 2
    /\ last.patch[1].newLines = 2
    /\ last.patch[1].lines = << <<"-", "a">>, <<"+", "c">>, <<"+", "c">> >>

(***************************************************************************)
(* C20                                                                     *)
(***************************************************************************)

\* every line break of s is one CR LF pair: no lone LF and no CR CR LF
AllCRLF(s) ==
    \A i \in 1..Len(s) :
        s[i] = LF => /\ i > 1 /\ s[i - 1] = CR
                     /\ ~(i > 2 /\ s[i - 2] = CR)

\* C20: whatever the content, the new_string included, a file detected as
\* CRLF is written with every line break one CR LF pair, and a file
\* detected as LF is written with no CR LF pair.
C20_WrittenInOneStyle ==
    (Called /\ last.kind = "Edited")
    => IF detect_line_endings(PreFile.data) = "CRLF"
       THEN AllCRLF(PostFile.data)
       ELSE ~Contains(PostFile.data, <<CR, LF>>)

(***************************************************************************)
(* C16                                                                     *)
(***************************************************************************)

\* the call that wrote the file last
LastWriter == writers[Len(writers)]

\* both calls passed the freshness check, wrote and returned
BothWrote ==
    /\ Len(writers) = 2
    /\ writers[1] # writers[2]
    /\ \A c \in Procs : calls[c].pc = "done"

\* C16: no lock orders the calls: a call that passed the freshness check
\* is never reported Stale afterwards, and when calls have written, the
\* file holds what the last writer computed from its own reading of the
\* file, whatever another call wrote meanwhile.
C16_LastWriterWins ==
    /\ \A c \in Procs :
          calls[c].pc \in {"write", "refresh", "commit"} => calls[c].kind = ""
    /\ \A c \in Procs :
          (calls[c].pc = "done" /\ \E i \in 1..Len(writers) : writers[i] = c)
          => calls[c].kind = "Edited"
    /\ writers # <<>>
       => fs[P1].data =
             write_text_content(
                 ReplaceFirst(calls[LastWriter].reread, calls[LastWriter].resolved,
                              calls[LastWriter].new_string),
                 calls[LastWriter].line_endings)

\* both calls passed the freshness check on the one recorded read, both
\* wrote and returned "Successfully edited", and the replacement of the
\* first writer is lost: the file holds the last writer's new text only
C16_Witness ==
    /\ BothWrote
    /\ \A c \in Procs : calls[c].kind = "Edited"
    /\ calls[writers[1]].old_string # calls[writers[2]].old_string
    /\ Contains(calls[writers[1]].updated_file, calls[writers[1]].new_string)
    /\ ~Contains(ReadText(fs[P1].data), calls[writers[1]].new_string)
    /\ Contains(ReadText(fs[P1].data), calls[writers[2]].new_string)
    /\ Len(commits) = 2
    /\ fs[P1].mtime > 0
    /\ read_file_timestamps[P1] = fs[P1].mtime

(***************************************************************************)
(* C22                                                                     *)
(***************************************************************************)

\* C22: whenever an edit succeeds through the exact pass (old_string is a
\* substring of the content), old_string starts at exactly one offset of
\* the content, overlapping occurrences counted as distinct.
C22_ExactPassEditsUniqueOffset ==
    (/\ Replacing
     /\ last.kind = "Edited"
     /\ Contains(PreText, last.old_string))
    => Cardinality(Offsets(PreText, last.old_string)) = 1

(***************************************************************************)
(* C21                                                                     *)
(***************************************************************************)

\* the call has computed the content it writes
Applied(c) ==
    \/ calls[c].pc \in {"write", "refresh", "commit"}
    \/ calls[c].pc = "done" /\ calls[c].kind = "Edited"

\* C21: within one call, the content the match was validated on is the
\* content the replacement is applied to and the written file is derived
\* from, whatever another process writes meanwhile.
C21_SingleSnapshot ==
    \A c \in DOMAIN calls :
        Applied(c)
        => /\ calls[c].reread = calls[c].content
           /\ calls[c].updated_file =
                 ReplaceFirst(calls[c].content, calls[c].resolved,
                              calls[c].new_string)

(***************************************************************************)
(* C23                                                                     *)
(***************************************************************************)

\* the other process rewrote the file after the write step of call c
ExternalWriteAfter(c) ==
    \E i, j \in 1..Len(writers) : i < j /\ writers[i] = c /\ writers[j] = Ext

\* the results of a later edit by the same caller, with the same table and
\* without a read in between
LaterEditKinds ==
    {edit_file_content(World, clock, P1, old, <<"e">>, "table", "edit", "none").kind :
        old \in ConcOlds}

\* C23: when another process has modified the file after the write step of
\* a successful edit, be it before the call refreshes the table, a later
\* edit by the same caller without a fresh read is refused as Stale.
C23_ExternalWriteNeverMasked ==
    \A c \in DOMAIN calls :
        (/\ calls[c].pc = "done"
         /\ calls[c].kind = "Edited"
         /\ ExternalWriteAfter(c))
        => LaterEditKinds = {"Stale"}

=============================================================================
